---- MODULE Spec2Model ----
(***************************************************************************)
(* Exports-map inference of src/src/utils.ts: generatePackageExports with  *)
(* its helpers generateExportConditions and                                *)
(* generateFolderPatternExportConditions, and the readers of an existing   *)
(* exports declaration, inferExportType and extractExportFilenames.        *)
(* Paths are TLA+ strings, and the                                         *)
(* string methods the code uses (endsWith, includes, split, the regular    *)
(* expression of removeExtension, template concatenation) are computed     *)
(* character by character on them.                                         *)
(***************************************************************************)
EXTENDS Naturals, Sequences, FiniteSets, TLC

VARIABLES buildEntries, outDir, exportImport, result, pc,
          condition, previousConditions, fileName, firstCall, evaluations,
          exportType, pkgExports, descriptors

\* generatePackageExports: its arguments and its return value.
generatorVars == <<buildEntries, outDir, exportImport, result>>

\* inferExportType: the parameters of the running activation, the arguments
\* of the outermost call, the number of evaluations of the function body
\* and the returned type.
inferVars ==
    <<condition, previousConditions, fileName, firstCall, evaluations, exportType>>

\* extractExportFilenames: its argument and its return value.
extractVars == <<pkgExports, descriptors>>

vars == <<generatorVars, inferVars, extractVars, pc>>

(***************************************************************************)
(* Bounds and input alphabets.                                             *)
(***************************************************************************)
\* Longest entry list handed to generatePackageExports.
MaxEntries == 3

\* Longest previousConditions chain handed to inferExportType.
MaxChain == 3

\* Most keys, nested ones included, of an exports object handed to
\* extractExportFilenames.
MaxKeys == 3

\* { path, chunk } as the bundling pipeline reports it.
Entry(p, c) == [path |-> p, chunk |-> c]

\* Entries that exercise the routing of an entry to a group: root files,
\* two folders (one path nested deeper), an unrecognized suffix at the root
\* and in a folder, a code chunk and a declaration chunk.
RoutingEntries ==
    { Entry("index.mjs", FALSE), Entry("index.d.ts", FALSE),
      Entry("cli.mjs", FALSE), Entry("notes.txt", FALSE),
      Entry("plugins/vite.mjs", FALSE), Entry("plugins/vite.d.mts", FALSE),
      Entry("utils/deep/helper.mjs", FALSE), Entry("utils/readme.txt", FALSE),
      Entry("chunk-1.mjs", TRUE), Entry("plugins/shared.d.mts", TRUE) }

\* Entries that exercise the conditions of a group: every suffix class at
\* the root and in a folder, a second root module, a module whose name
\* contains ".d.", and a code chunk.
ClassEntries ==
    { Entry("index.mjs", FALSE), Entry("index.cjs", FALSE),
      Entry("index.d.ts", FALSE), Entry("index.d.mts", FALSE),
      Entry("index.d.cts", FALSE), Entry("cli.mjs", FALSE),
      Entry("a.d.mjs", FALSE),
      Entry("plugins/vite.mjs", FALSE), Entry("plugins/vite.cjs", FALSE),
      Entry("plugins/vite.d.ts", FALSE), Entry("plugins/vite.d.mts", FALSE),
      Entry("plugins/vite.d.cts", FALSE), Entry("chunk-1.mjs", TRUE) }

RECURSIVE SeqsUpTo(_, _)
SeqsUpTo(S, n) ==
    IF n = 0 THEN { <<>> }
    ELSE LET shorter == SeqsUpTo(S, n - 1)
         IN  shorter \cup { Append(s, e) : s \in shorter, e \in S }

OutDirs == { "dist", "lib" }

\* exportImport: boolean | string[]
BoolMode(b) == [isArray |-> FALSE, bool |-> b, list |-> <<>>]
ListMode(l) == [isArray |-> TRUE, bool |-> FALSE, list |-> l]

Modes ==
    { BoolMode(FALSE), BoolMode(TRUE), ListMode(<<>>),
      ListMode(<<"plugins">>), ListMode(<<"index", "plugins">>) }

\* The modes under which groups are formed, one full and one selective.
GroupingModes == { BoolMode(TRUE), ListMode(<<"index", "plugins">>) }

\* The optional package manifest argument.
NoPkg == [given |-> FALSE, name |-> ""]
Manifests == { NoPkg, [given |-> TRUE, name |-> "pkg"] }

(***************************************************************************)
(* String methods.                                                         *)
(***************************************************************************)
\* String.prototype.endsWith
EndsWith(s, suffix) ==
    /\ Len(s) >= Len(suffix)
    /\ SubSeq(s, Len(s) - Len(suffix) + 1, Len(s)) = suffix

\* String.prototype.includes
Includes(s, sub) ==
    \E i \in 1..(Len(s) + 1) :
        /\ i + Len(sub) - 1 <= Len(s)
        /\ SubSeq(s, i, i + Len(sub) - 1) = sub

\* String.prototype.split("/")
RECURSIVE Split(_)
Split(s) ==
    LET at == { i \in 1..Len(s) : SubSeq(s, i, i) = "/" }
    IN  IF at = {} THEN << s >>
        ELSE LET i == CHOOSE j \in at : \A k \in at : j <= k
             IN  << SubSeq(s, 1, i - 1) >> \o Split(SubSeq(s, i + 1, Len(s)))

\* The alternatives of the regular expression of removeExtension.
RemovableExtensions ==
    { "js", "mjs", "cjs", "ts", "mts", "cts", "json", "jsx", "tsx" }

\* filename.replace(/\.(js|mjs|cjs|ts|mts|cts|json|jsx|tsx)$/, "")
removeExtension(filename) ==
    LET matched == { e \in RemovableExtensions : EndsWith(filename, "." \o e) }
    IN  IF matched = {} THEN filename
        ELSE LET e == CHOOSE x \in matched : TRUE
             IN  SubSeq(filename, 1, Len(filename) - Len(e) - 1)

(***************************************************************************)
(* JavaScript objects are functions from their keys; the empty object is   *)
(* the function with the empty domain.                                     *)
(***************************************************************************)
EmptyObject == << >>

\* obj[key] = value
Put(obj, key, value) == (key :> value) @@ obj

\* Object.keys(obj)
Keys(obj) == DOMAIN obj

\* What a group exports: a bare path string or a conditions object.
StringValue(s) == [kind |-> "string", path |-> s]
ObjectValue(c) == [kind |-> "object", conditions |-> c]

\* What generatePackageExports returns.
Undefined == [kind |-> "undefined"]
ExportsMap(e) == [kind |-> "map", exports |-> e]

(***************************************************************************)
(* inferExportType.  One evaluation of the function body either returns a  *)
(* type or makes the recursive call on the rest of the chain.              *)
(***************************************************************************)
\* return "esm" | "cjs"
Return(type) == [returns |-> TRUE, type |-> type]

\* return inferExportType(newCondition, rest, filename)
Recurse(newCondition, rest) ==
    [returns |-> FALSE, condition |-> newCondition, previousConditions |-> rest]

\* Mutant: the condition is examined before the filename.
inferBodyConditionFirst(cond, previous, file) ==
    IF cond = "import" THEN Return("esm")
    ELSE IF cond = "require" THEN Return("cjs")
    ELSE IF file # "" /\ EndsWith(file, ".d.ts") THEN Return("esm")
    ELSE IF file # "" /\ EndsWith(file, ".mjs") THEN Return("esm")
    ELSE IF file # "" /\ EndsWith(file, ".cjs") THEN Return("cjs")
    ELSE IF Len(previous) = 0 THEN Return("esm")
    ELSE Recurse(Head(previous), Tail(previous))

\* Mutant: the chain is consumed from its last element.
inferBodyFromLast(cond, previous, file) ==
    IF file # "" /\ EndsWith(file, ".d.ts") THEN Return("esm")
    ELSE IF file # "" /\ EndsWith(file, ".mjs") THEN Return("esm")
    ELSE IF file # "" /\ EndsWith(file, ".cjs") THEN Return("cjs")
    ELSE IF cond = "import" THEN Return("esm")
    ELSE IF cond = "require" THEN Return("cjs")
    ELSE IF Len(previous) = 0 THEN Return("esm")
    ELSE Recurse(previous[Len(previous)], SubSeq(previous, 1, Len(previous) - 1))

\* Mutant: the recursive call passes the whole chain again.
inferBodyKeepsChain(cond, previous, file) ==
    IF file # "" /\ EndsWith(file, ".d.ts") THEN Return("esm")
    ELSE IF file # "" /\ EndsWith(file, ".mjs") THEN Return("esm")
    ELSE IF file # "" /\ EndsWith(file, ".cjs") THEN Return("cjs")
    ELSE IF cond = "import" THEN Return("esm")
    ELSE IF cond = "require" THEN Return("cjs")
    ELSE IF Len(previous) = 0 THEN Return("esm")
    ELSE Recurse(Head(previous), previous)

\* The body of inferExportType.
inferBody(cond, previous, file) ==
    IF file # "" /\ EndsWith(file, ".d.ts") THEN Return("esm")
    ELSE IF file # "" /\ EndsWith(file, ".mjs") THEN Return("esm")
    ELSE IF file # "" /\ EndsWith(file, ".cjs") THEN Return("cjs")
    ELSE IF cond = "import" THEN Return("esm")
    ELSE IF cond = "require" THEN Return("cjs")
    ELSE IF Len(previous) = 0 THEN Return("esm")
    ELSE Recurse(Head(previous), Tail(previous))

RECURSIVE inferExportType(_, _, _)
inferExportType(cond, previous, file) ==
    LET body == inferBody(cond, previous, file)
    IN  IF body.returns THEN body.type
        ELSE inferExportType(body.condition, body.previousConditions, file)

(***************************************************************************)
(* extractExportFilenames.  The exports declaration of a manifest is       *)
(* undefined, a string, or an object; an object is the list of its         *)
(* [key, value] pairs in the order Object.entries yields them.             *)
(***************************************************************************)
ExportsObject(entries) == [kind |-> "object", entries |-> entries]

\* { file, type }
OutputDescriptor(file, type) == [file |-> file, type |-> type]

\* !exports
isFalsy(exports) ==
    \/ exports.kind = "undefined"
    \/ exports.kind = "string" /\ exports.path = ""

\* Mutant: no subpath is filtered out.
isJsonSubpathNever(subpath) == FALSE

\* "Filter out .json subpaths such as package.json"
isJsonSubpath(subpath) == EndsWith(subpath, ".json")

RECURSIVE extractExportFilenames(_, _)
RECURSIVE flatMapEntries(_, _, _)

\* .filter(...).flatMap(...) over the first n pairs of Object.entries(exports)
flatMapEntries(entries, conditions, n) ==
    IF n = 0 THEN << >>
    ELSE LET key   == entries[n].key
             value == entries[n].value
             mapped ==
                 IF isJsonSubpath(key) THEN << >>
                 ELSE IF value.kind = "string"
                 THEN << OutputDescriptor(
                             value.path,
                             inferExportType(key, conditions, value.path)) >>
                 ELSE extractExportFilenames(value, Append(conditions, key))
         IN  flatMapEntries(entries, conditions, n - 1) \o mapped

\* Mutant: the type of a string declaration is inferred from its suffix.
extractExportFilenamesInferringRoot(exports, conditions) ==
    IF isFalsy(exports) THEN << >>
    ELSE IF exports.kind = "string"
    THEN << OutputDescriptor(exports.path,
                             inferExportType("default", conditions, exports.path)) >>
    ELSE flatMapEntries(exports.entries, conditions, Len(exports.entries))

extractExportFilenames(exports, conditions) ==
    IF isFalsy(exports) THEN << >>
    ELSE IF exports.kind = "string"
    THEN << OutputDescriptor(exports.path, "esm") >>
    ELSE flatMapEntries(exports.entries, conditions, Len(exports.entries))

(***************************************************************************)
(* generateExportConditions: literal paths of one group.                   *)
(***************************************************************************)
\* Mutant: the path is written without the extension of the file.
literalPathWithoutExtension(dir, prefix, file) ==
    "./" \o dir \o "/" \o prefix \o removeExtension(file)

\* `./${outDir}/${prefix}${file}`
literalPath(dir, prefix, file) == "./" \o dir \o "/" \o prefix \o file

\* Mutant: the module class is matched by /\.m[jt]s$/, which also matches
\* the declaration suffix .d.mts.
filesByTypeLooseModule(files) ==
    [ mjs  |-> SelectSeq(files, LAMBDA f : EndsWith(f, ".mjs") \/ EndsWith(f, ".mts")),
      cjs  |-> SelectSeq(files, LAMBDA f : EndsWith(f, ".cjs")),
      dts  |-> SelectSeq(files, LAMBDA f : EndsWith(f, ".d.ts")),
      dmts |-> SelectSeq(files, LAMBDA f : EndsWith(f, ".d.mts")),
      dcts |-> SelectSeq(files, LAMBDA f : EndsWith(f, ".d.cts")) ]

\* const filesByType = { mjs, cjs, dts, dmts, dcts }
filesByType(files) ==
    [ mjs  |-> SelectSeq(files, LAMBDA f : EndsWith(f, ".mjs")),
      cjs  |-> SelectSeq(files, LAMBDA f : EndsWith(f, ".cjs")),
      dts  |-> SelectSeq(files, LAMBDA f : EndsWith(f, ".d.ts")),
      dmts |-> SelectSeq(files, LAMBDA f : EndsWith(f, ".d.mts")),
      dcts |-> SelectSeq(files, LAMBDA f : EndsWith(f, ".d.cts")) ]

\* const hasDeclarationFiles = ...
hasDeclarationFiles(byType) ==
    Len(byType.dts) > 0 \/ Len(byType.dmts) > 0 \/ Len(byType.dcts) > 0

\* Mutant: the top-level types prefers .d.mts over .d.ts.
topLevelTypesPreferDmts(conditions, byType, dir, prefix) ==
    IF hasDeclarationFiles(byType)
    THEN IF Len(byType.dmts) > 0
         THEN Put(conditions, "types", literalPath(dir, prefix, byType.dmts[1]))
         ELSE IF Len(byType.dts) > 0
         THEN Put(conditions, "types", literalPath(dir, prefix, byType.dts[1]))
         ELSE IF Len(byType.dcts) > 0
         THEN Put(conditions, "types", literalPath(dir, prefix, byType.dcts[1]))
         ELSE conditions
    ELSE conditions

\* "Add top-level types field if we have declaration files"
topLevelTypes(conditions, byType, dir, prefix) ==
    IF hasDeclarationFiles(byType)
    THEN IF Len(byType.dts) > 0
         THEN Put(conditions, "types", literalPath(dir, prefix, byType.dts[1]))
         ELSE IF Len(byType.dmts) > 0
         THEN Put(conditions, "types", literalPath(dir, prefix, byType.dmts[1]))
         ELSE IF Len(byType.dcts) > 0
         THEN Put(conditions, "types", literalPath(dir, prefix, byType.dcts[1]))
         ELSE conditions
    ELSE conditions

\* Mutant: import.types prefers the generic .d.ts over .d.mts.
esmImportsPreferDts(conditions, byType, dir, prefix) ==
    IF Len(byType.mjs) > 0
    THEN LET import == Put(EmptyObject, "default",
                           literalPath(dir, prefix, byType.mjs[1]))
         IN  IF Len(byType.dts) > 0
             THEN Put(conditions, "import",
                      Put(import, "types", literalPath(dir, prefix, byType.dts[1])))
             ELSE IF Len(byType.dmts) > 0
             THEN Put(conditions, "import",
                      Put(import, "types", literalPath(dir, prefix, byType.dmts[1])))
             ELSE Put(conditions, "import", import)
    ELSE conditions

\* "ESM imports"
esmImports(conditions, byType, dir, prefix) ==
    IF Len(byType.mjs) > 0
    THEN LET import == Put(EmptyObject, "default",
                           literalPath(dir, prefix, byType.mjs[1]))
         IN  IF Len(byType.dmts) > 0
             THEN Put(conditions, "import",
                      Put(import, "types", literalPath(dir, prefix, byType.dmts[1])))
             ELSE IF Len(byType.dts) > 0
             THEN Put(conditions, "import",
                      Put(import, "types", literalPath(dir, prefix, byType.dts[1])))
             ELSE Put(conditions, "import", import)
    ELSE conditions

\* Mutant: the CommonJS file is written as a top-level "default" fallback
\* instead of a require block.
cjsRequiresAsDefault(conditions, byType, dir, prefix) ==
    IF Len(byType.cjs) > 0
    THEN Put(conditions, "default", literalPath(dir, prefix, byType.cjs[1]))
    ELSE conditions

\* "CJS requires"
cjsRequires(conditions, byType, dir, prefix) ==
    IF Len(byType.cjs) > 0
    THEN LET require == Put(EmptyObject, "default",
                            literalPath(dir, prefix, byType.cjs[1]))
         IN  IF Len(byType.dcts) > 0
             THEN Put(conditions, "require",
                      Put(require, "types", literalPath(dir, prefix, byType.dcts[1])))
             ELSE IF Len(byType.dts) > 0
             THEN Put(conditions, "require",
                      Put(require, "types", literalPath(dir, prefix, byType.dts[1])))
             ELSE Put(conditions, "require", require)
    ELSE conditions

\* Mutant: the types-only export forgets the require block of .d.cts.
typesOnlyExportImportOnly(conditions, byType, dir, prefix) ==
    IF Len(byType.mjs) = 0 /\ Len(byType.cjs) = 0 /\ hasDeclarationFiles(byType)
    THEN LET c1 == IF Len(byType.dmts) > 0
                   THEN Put(conditions, "import",
                            Put(EmptyObject, "types",
                                literalPath(dir, prefix, byType.dmts[1])))
                   ELSE conditions
         IN  IF /\ Len(byType.dts) > 0
                /\ "import" \notin Keys(c1)
                /\ "require" \notin Keys(c1)
             THEN Put(c1, "types", literalPath(dir, prefix, byType.dts[1]))
             ELSE c1
    ELSE conditions

\* "If we only have declaration files, create a types-only export"
typesOnlyExport(conditions, byType, dir, prefix) ==
    IF Len(byType.mjs) = 0 /\ Len(byType.cjs) = 0 /\ hasDeclarationFiles(byType)
    THEN LET c1 == IF Len(byType.dmts) > 0
                   THEN Put(conditions, "import",
                            Put(EmptyObject, "types",
                                literalPath(dir, prefix, byType.dmts[1])))
                   ELSE conditions
             c2 == IF Len(byType.dcts) > 0
                   THEN Put(c1, "require",
                            Put(EmptyObject, "types",
                                literalPath(dir, prefix, byType.dcts[1])))
                   ELSE c1
         IN  IF /\ Len(byType.dts) > 0
                /\ "import" \notin Keys(c2)
                /\ "require" \notin Keys(c2)
             THEN Put(c2, "types", literalPath(dir, prefix, byType.dts[1]))
             ELSE c2
    ELSE conditions

\* "If only one non-declaration file and no separate declaration files,
\* return simple string export"
isSimpleStringExport(files) ==
    /\ Len(files) = 1
    /\ ~hasDeclarationFiles(filesByType(files))
    /\ ~Includes(files[1], ".d.")

generateExportConditions(files, dir, prefix) ==
    LET byType == filesByType(files)
    IN  IF isSimpleStringExport(files)
        THEN StringValue(literalPath(dir, prefix, files[1]))
        ELSE ObjectValue(
                 typesOnlyExport(
                     cjsRequires(
                         esmImports(
                             topLevelTypes(EmptyObject, byType, dir, prefix),
                             byType, dir, prefix),
                         byType, dir, prefix),
                     byType, dir, prefix))

(***************************************************************************)
(* generateFolderPatternExportConditions: wildcard patterns of one folder. *)
(***************************************************************************)
\* `./${outDir}/${folderName}/*.<ext>`
patternPath(dir, folderName, ext) == "./" \o dir \o "/" \o folderName \o "/*." \o ext

\* "Add top-level types field if we have declaration files"
folderTopLevelTypes(conditions, byType, dir, folderName) ==
    IF hasDeclarationFiles(byType)
    THEN IF Len(byType.dts) > 0
         THEN Put(conditions, "types", patternPath(dir, folderName, "d.ts"))
         ELSE IF Len(byType.dmts) > 0
         THEN Put(conditions, "types", patternPath(dir, folderName, "d.mts"))
         ELSE IF Len(byType.dcts) > 0
         THEN Put(conditions, "types", patternPath(dir, folderName, "d.cts"))
         ELSE conditions
    ELSE conditions

\* "ESM imports"
folderEsmImports(conditions, byType, dir, folderName) ==
    IF Len(byType.mjs) > 0
    THEN LET import == Put(EmptyObject, "default", patternPath(dir, folderName, "mjs"))
         IN  IF Len(byType.dmts) > 0
             THEN Put(conditions, "import",
                      Put(import, "types", patternPath(dir, folderName, "d.mts")))
             ELSE IF Len(byType.dts) > 0
             THEN Put(conditions, "import",
                      Put(import, "types", patternPath(dir, folderName, "d.ts")))
             ELSE Put(conditions, "import", import)
    ELSE conditions

\* Mutant: the require block is guarded by the .mjs files (a copy of the
\* import block's guard).
folderCjsRequiresOnMjs(conditions, byType, dir, folderName) ==
    IF Len(byType.mjs) > 0
    THEN LET require == Put(EmptyObject, "default", patternPath(dir, folderName, "cjs"))
         IN  IF Len(byType.dcts) > 0
             THEN Put(conditions, "require",
                      Put(require, "types", patternPath(dir, folderName, "d.cts")))
             ELSE IF Len(byType.dts) > 0
             THEN Put(conditions, "require",
                      Put(require, "types", patternPath(dir, folderName, "d.ts")))
             ELSE Put(conditions, "require", require)
    ELSE conditions

\* "CJS requires"
folderCjsRequires(conditions, byType, dir, folderName) ==
    IF Len(byType.cjs) > 0
    THEN LET require == Put(EmptyObject, "default", patternPath(dir, folderName, "cjs"))
         IN  IF Len(byType.dcts) > 0
             THEN Put(conditions, "require",
                      Put(require, "types", patternPath(dir, folderName, "d.cts")))
             ELSE IF Len(byType.dts) > 0
             THEN Put(conditions, "require",
                      Put(require, "types", patternPath(dir, folderName, "d.ts")))
             ELSE Put(conditions, "require", require)
    ELSE conditions

\* "If we only have declaration files, create a types-only export"
folderTypesOnlyExport(conditions, byType, dir, folderName) ==
    IF Len(byType.mjs) = 0 /\ Len(byType.cjs) = 0 /\ hasDeclarationFiles(byType)
    THEN LET c1 == IF Len(byType.dmts) > 0
                   THEN Put(conditions, "import",
                            Put(EmptyObject, "types",
                                patternPath(dir, folderName, "d.mts")))
                   ELSE conditions
             c2 == IF Len(byType.dcts) > 0
                   THEN Put(c1, "require",
                            Put(EmptyObject, "types",
                                patternPath(dir, folderName, "d.cts")))
                   ELSE c1
         IN  IF /\ Len(byType.dts) > 0
                /\ "import" \notin Keys(c2)
                /\ "require" \notin Keys(c2)
             THEN Put(c2, "types", patternPath(dir, folderName, "d.ts"))
             ELSE c2
    ELSE conditions

generateFolderPatternExportConditions(files, dir, folderName) ==
    LET byType == filesByType(files)
    IN  ObjectValue(
            folderTypesOnlyExport(
                folderCjsRequires(
                    folderEsmImports(
                        folderTopLevelTypes(EmptyObject, byType, dir, folderName),
                        byType, dir, folderName),
                    byType, dir, folderName),
                byType, dir, folderName))

(***************************************************************************)
(* generatePackageExports.                                                 *)
(***************************************************************************)
\* const filterFolders = Array.isArray(exportImport) ? exportImport : []
filterFolders(mode) == IF mode.isArray THEN mode.list ELSE << >>

\* const shouldIncludeAll = exportImport === true || (array of length 0)
shouldIncludeAll(mode) ==
    \/ (~mode.isArray /\ mode.bool = TRUE)
    \/ (mode.isArray /\ Len(mode.list) = 0)

\* filterFolders.includes(folderName)
ArrayIncludes(arr, x) == \E i \in 1..Len(arr) : arr[i] = x

\* Mutant: every chunk is skipped, declaration chunks included.
isSkippedChunkAlways(entry) == entry.chunk

\* "Skip chunk files unless they are TypeScript declaration files"
isSkippedChunk(entry) == entry.chunk /\ ~Includes(entry.path, ".d.")

\* removeExtension, then "removing the .d part"
pathWithoutExt(path) ==
    LET stripped == removeExtension(path)
    IN  IF EndsWith(stripped, ".d")
        THEN SubSeq(stripped, 1, Len(stripped) - 2)
        ELSE stripped

\* const parts = pathWithoutExt.split("/")
pathParts(path) == Split(pathWithoutExt(path))

\* Mutant: the base key is the directory next to the file instead of the
\* first segment.
baseKeyOfNearestDirectory(parts) ==
    IF Len(parts) > 1 THEN "./" \o parts[Len(parts) - 1] ELSE "."

\* "Determine the base directory structure"
baseKeyOf(parts) == IF Len(parts) > 1 THEN "./" \o parts[1] ELSE "."

\* Mutant: the folder list filters even when it is empty.
isFilteredOutForAnyArray(parts, mode) ==
    /\ mode.isArray
    /\ ~ArrayIncludes(filterFolders(mode), parts[1])

\* Mutant: the guard on shouldIncludeAll is inverted, so a non-empty folder
\* list never filters.
isFilteredOutInvertedGuard(parts, mode) ==
    /\ shouldIncludeAll(mode)
    /\ Len(filterFolders(mode)) > 0
    /\ ~ArrayIncludes(filterFolders(mode), parts[1])

\* "Apply folder filtering if specified"
isFilteredOut(parts, mode) ==
    /\ ~shouldIncludeAll(mode)
    /\ Len(filterFolders(mode)) > 0
    /\ ~ArrayIncludes(filterFolders(mode), parts[1])

\* One iteration of the loop over buildEntries.
groupEntry(groups, entry, mode) ==
    IF isSkippedChunk(entry) THEN groups
    ELSE LET parts   == pathParts(entry.path)
             baseKey == baseKeyOf(parts)
             files   == IF baseKey \in Keys(groups) THEN groups[baseKey] ELSE << >>
         IN  IF isFilteredOut(parts, mode) THEN groups
             ELSE Put(groups, baseKey, Append(files, entry.path))

\* The Map entryGroups after the loop over the first n entries.
RECURSIVE entryGroups(_, _, _)
entryGroups(entries, mode, n) ==
    IF n = 0 THEN EmptyObject
    ELSE groupEntry(entryGroups(entries, mode, n - 1), entries[n], mode)

\* Mutant: a folder with a single file is not taken for a folder pattern.
hasFolderPatternSeveralFiles(baseKey, files) ==
    /\ Len(files) > 1
    /\ \E i \in 1..Len(files) : Includes(files[i], "/") /\ baseKey # "."

\* const hasFolderPattern = files.some((f) => f.includes("/") && !isMainEntry)
hasFolderPattern(baseKey, files) ==
    \E i \in 1..Len(files) : Includes(files[i], "/") /\ baseKey # "."

\* Mutant: only files named "index" are main files.
mainFilesIndexOnly(files) ==
    SelectSeq(files, LAMBDA f : removeExtension(f) = "index")

\* const mainFiles = files.filter(...)
mainFiles(files) ==
    SelectSeq(files, LAMBDA f : removeExtension(f) = "index" \/ ~Includes(f, "/"))

\* The key a group is exported under.
exportKey(baseKey, files) ==
    IF baseKey = "." THEN "."
    ELSE IF hasFolderPattern(baseKey, files) THEN baseKey \o "/*"
    ELSE baseKey

\* The export conditions computed for a group; NoConditions when the root
\* group has no main file and nothing is computed.
NoConditions == ObjectValue(EmptyObject)

groupConditions(baseKey, files, dir) ==
    IF baseKey = "."
    THEN LET main == mainFiles(files)
         IN  IF Len(main) > 0
             THEN generateExportConditions(main, dir, "")
             ELSE NoConditions
    ELSE IF hasFolderPattern(baseKey, files)
    THEN generateFolderPatternExportConditions(
             files, dir, SubSeq(baseKey, 3, Len(baseKey)))
    ELSE generateExportConditions(files, dir, "")

\* Mutant: a group is emitted even when its conditions have no key.
isEmittedAlways(value) == TRUE

\* exportConditions && Object.keys(exportConditions).length > 0
isEmitted(value) ==
    IF value.kind = "string" THEN Len(value.path) > 0
    ELSE Keys(value.conditions) # {}

\* The object `exports` after the loop over the groups.
groupExports(groups, dir) ==
    LET conditions == [ k \in Keys(groups) |-> groupConditions(k, groups[k], dir) ]
        keyOf      == [ k \in Keys(groups) |-> exportKey(k, groups[k]) ]
        emitted    == { k \in Keys(groups) : isEmitted(conditions[k]) }
    IN  [ key \in { keyOf[k] : k \in emitted } |->
            conditions[CHOOSE k \in emitted : keyOf[k] = key] ]

\* Mutant: the early return for exportImport === false is missing.
generatePackageExportsNoDisable(entries, dir, mode, manifest) ==
    LET exports == groupExports(entryGroups(entries, mode, Len(entries)), dir)
    IN  IF Cardinality(Keys(exports)) > 0 THEN ExportsMap(exports) ELSE Undefined

\* Mutant: the mapping is returned even when it has no key.
generatePackageExportsEmptyMap(entries, dir, mode, manifest) ==
    IF ~mode.isArray /\ mode.bool = FALSE THEN Undefined
    ELSE ExportsMap(groupExports(entryGroups(entries, mode, Len(entries)), dir))

\* Mutant: a given manifest is taken to carry its own exports, and nothing
\* is generated for it.
generatePackageExportsKeepsManifest(entries, dir, mode, manifest) ==
    IF manifest.given \/ (~mode.isArray /\ mode.bool = FALSE) THEN Undefined
    ELSE LET exports == groupExports(entryGroups(entries, mode, Len(entries)), dir)
         IN  IF Cardinality(Keys(exports)) > 0 THEN ExportsMap(exports) ELSE Undefined

generatePackageExports(entries, dir, mode, manifest) ==
    IF ~mode.isArray /\ mode.bool = FALSE THEN Undefined
    ELSE LET exports == groupExports(entryGroups(entries, mode, Len(entries)), dir)
         IN  IF Cardinality(Keys(exports)) > 0 THEN ExportsMap(exports) ELSE Undefined

(***************************************************************************)
(* The functions are independent; while one is called the state of the     *)
(* others stays as it was before any call.                                 *)
(***************************************************************************)
NotInferred == "none"

GeneratorIdle ==
    /\ buildEntries = << >>
    /\ outDir = "dist"
    /\ exportImport = BoolMode(FALSE)
    /\ result = Undefined

InferIdle ==
    /\ condition = ""
    /\ previousConditions = << >>
    /\ fileName = ""
    /\ firstCall = << "", << >>, "" >>
    /\ evaluations = 0
    /\ exportType = NotInferred

ExtractIdle ==
    /\ pkgExports = Undefined
    /\ descriptors = << >>

(***************************************************************************)
(* One call of generatePackageExports on inputs drawn by Init.             *)
(***************************************************************************)
\* The build has produced its entries and read its configuration; nothing
\* has been generated yet.
Init ==
    /\ buildEntries \in SeqsUpTo(RoutingEntries, MaxEntries)
    /\ outDir \in OutDirs
    /\ exportImport \in Modes
    /\ result = Undefined
    /\ pc = "call"
    /\ InferIdle
    /\ ExtractIdle

\* generatePackageExports(buildEntries, outDir, exportImport, NoPkg), with or
\* without the optional manifest.
Generate ==
    /\ pc = "call"
    /\ \E manifest \in Manifests :
          result' = generatePackageExports(buildEntries, outDir, exportImport, manifest)
    /\ pc' = "done"
    /\ UNCHANGED <<buildEntries, outDir, exportImport, inferVars, extractVars>>

Next == Generate

Spec == Init /\ [][Next]_vars

\* The same call on entry lists rich in suffix classes, with generation
\* enabled.
InitConditions ==
    /\ buildEntries \in SeqsUpTo(ClassEntries, MaxEntries)
    /\ outDir \in OutDirs
    /\ exportImport \in GroupingModes
    /\ result = Undefined
    /\ pc = "call"
    /\ InferIdle
    /\ ExtractIdle

SpecConditions == InitConditions /\ [][Next]_vars

\* The same call on entry lists with two root files of each suffix class, a
\* folder file named index and a code chunk.
RootEntries ==
    { Entry("index.mjs", FALSE), Entry("cli.mjs", FALSE),
      Entry("index.cjs", FALSE), Entry("cli.cjs", FALSE),
      Entry("index.d.ts", FALSE), Entry("cli.d.ts", FALSE),
      Entry("index.d.mts", FALSE), Entry("cli.d.mts", FALSE),
      Entry("plugins/index.mjs", FALSE), Entry("shared.mjs", TRUE) }

InitRoot ==
    /\ buildEntries \in SeqsUpTo(RootEntries, MaxEntries)
    /\ outDir \in OutDirs
    /\ exportImport \in GroupingModes
    /\ result = Undefined
    /\ pc = "call"
    /\ InferIdle
    /\ ExtractIdle

SpecRoot == InitRoot /\ [][Next]_vars

Returned == pc = "done"

(***************************************************************************)
(* One call of inferExportType, evaluation by evaluation.                  *)
(***************************************************************************)
\* Condition names: the two the function recognizes and two it does not.
ConditionNames == { "import", "require", "node", "default" }

\* No filename, one of each decisive suffix, and two undecisive ones.
Filenames ==
    { "", "index.mjs", "index.cjs", "index.d.ts", "index.d.mts", "index.js" }

\* The recursion of the code ends by itself; the guard only keeps a
\* recursion that does not end within a finite number of states.
MaxEvaluations == MaxChain + 3

InitInfer ==
    /\ condition \in ConditionNames
    /\ previousConditions \in SeqsUpTo(ConditionNames, MaxChain)
    /\ fileName \in Filenames
    /\ firstCall = << condition, previousConditions, fileName >>
    /\ evaluations = 0
    /\ exportType = NotInferred
    /\ pc = "infer"
    /\ GeneratorIdle
    /\ ExtractIdle

\* An evaluation of the body that reaches a return statement.
InferReturn ==
    /\ pc = "infer"
    /\ evaluations < MaxEvaluations
    /\ LET body == inferBody(condition, previousConditions, fileName)
       IN  /\ body.returns
           /\ exportType' = body.type
    /\ evaluations' = evaluations + 1
    /\ pc' = "inferred"
    /\ UNCHANGED <<condition, previousConditions, fileName, firstCall>>
    /\ UNCHANGED <<generatorVars, extractVars>>

\* An evaluation of the body that reaches the recursive call.
InferRecurse ==
    /\ pc = "infer"
    /\ evaluations < MaxEvaluations
    /\ LET body == inferBody(condition, previousConditions, fileName)
       IN  /\ ~body.returns
           /\ condition' = body.condition
           /\ previousConditions' = body.previousConditions
    /\ evaluations' = evaluations + 1
    /\ UNCHANGED <<fileName, firstCall, exportType, pc>>
    /\ UNCHANGED <<generatorVars, extractVars>>

NextInfer == InferReturn \/ InferRecurse

SpecInfer == InitInfer /\ [][NextInfer]_vars

Inferred == pc = "inferred"

(***************************************************************************)
(* One call of extractExportFilenames.                                     *)
(***************************************************************************)
\* Keys of an exports object: conditions and a manifest subpath.
ExportKeys == { "import", "require", "node", "./package.json" }

\* String leaves of an exports object: without and with a decisive suffix.
LeafFiles == { "test", "index.cjs" }

\* Strings given as the whole exports declaration.
RootFiles == { "", "test", "index.cjs", "index.mjs", "data.json" }

\* The keys of a list of [key, value] pairs.
KeysOfEntries(entries) == { entries[i].key : i \in 1..Len(entries) }

\* The entry lists with n keys in all, the keys of nested objects counted,
\* and no key twice in one object.
RECURSIVE EntriesWithKeys(_)
EntriesWithKeys(n) ==
    IF n = 0 THEN { << >> }
    ELSE UNION { UNION {
             { Append(front, [key |-> k, value |-> v]) :
                 k \in ExportKeys \ KeysOfEntries(front),
                 v \in IF m = 0
                       THEN { StringValue(f) : f \in LeafFiles }
                                \cup { ExportsObject(<< >>) }
                       ELSE { ExportsObject(e) : e \in EntriesWithKeys(m) } } :
             front \in EntriesWithKeys(n - 1 - m) } : m \in 0..(n - 1) }

\* The exports declarations whose objects have at most maxKeys keys.
ExportsDeclarations(maxKeys) ==
    { Undefined }
        \cup { StringValue(f) : f \in RootFiles }
        \cup UNION { { ExportsObject(e) : e \in EntriesWithKeys(n) } : n \in 0..maxKeys }

InitExtract ==
    /\ pkgExports \in ExportsDeclarations(MaxKeys)
    /\ descriptors = << >>
    /\ pc = "extract"
    /\ GeneratorIdle
    /\ InferIdle

\* extractExportFilenames(pkgExports)
Extract ==
    /\ pc = "extract"
    /\ descriptors' = extractExportFilenames(pkgExports, << >>)
    /\ pc' = "extracted"
    /\ UNCHANGED <<pkgExports, generatorVars, inferVars>>

NextExtract == Extract

SpecExtract == InitExtract /\ [][NextExtract]_vars

Extracted == pc = "extracted"

(***************************************************************************)
(* Vocabulary of the properties.                                           *)
(***************************************************************************)
\* The keys of the returned map; none when undefined was returned.
ResultKeys == IF result.kind = "map" THEN Keys(result.exports) ELSE {}

\* Selective mode: exportImport is a non-empty list of folder names.
Selective == exportImport.isArray /\ Len(exportImport.list) > 0

\* The names listed in exportImport.
ListedFolders == { exportImport.list[i] : i \in 1..Len(exportImport.list) }

\* The first segment of an entry's normalized name.
TopSegment(path) == Split(pathWithoutExt(path))[1]

\* seq without its i-th element.
RemoveAt(seq, i) == SubSeq(seq, 1, i - 1) \o SubSeq(seq, i + 1, Len(seq))

\* Some element of seq satisfies Test.
Some(seq, Test(_)) == \E i \in 1..Len(seq) : Test(seq[i])

(***************************************************************************)
(* C1..C5: modes, folder filter, chunk filter.                             *)
(***************************************************************************)
\* C1: with mode false generatePackageExports returns undefined, whatever
\* the entries, the outDir and the manifest are.
C1_DisabledReturnsUndefined ==
    (Returned /\ exportImport = BoolMode(FALSE)) => result = Undefined

C1_Witness ==
    /\ Returned
    /\ exportImport = BoolMode(FALSE)
    /\ Len(buildEntries) > 1
    /\ Some(buildEntries, LAMBDA e : e.path = "index.mjs" /\ ~e.chunk)
    /\ result = Undefined

\* C2: mode [] returns exactly what mode true returns on the same entries and
\* outDir, and under mode [] the folder filter drops no entry.
C2_EmptyListSameAsTrue ==
    (Returned /\ exportImport = ListMode(<< >>)) =>
        /\ result = generatePackageExports(buildEntries, outDir, BoolMode(TRUE), NoPkg)
        /\ \A i \in 1..Len(buildEntries) :
               ~isFilteredOut(pathParts(buildEntries[i].path), exportImport)

C2_Witness ==
    /\ Returned
    /\ exportImport = ListMode(<< >>)
    /\ "." \in ResultKeys
    /\ "./plugins/*" \in ResultKeys
    /\ "./utils/*" \in ResultKeys

\* C3: in selective mode with list L every folder key "./f/*" of the result
\* has f in L, and removing an entry whose top-level segment is not in L
\* leaves the result unchanged.
C3_SelectiveFilter ==
    (Returned /\ Selective) =>
        /\ \A key \in ResultKeys \ { "." } :
               \E f \in ListedFolders : key = "./" \o f \o "/*"
        /\ \A i \in 1..Len(buildEntries) :
               TopSegment(buildEntries[i].path) \notin ListedFolders =>
                   result = generatePackageExports(
                                RemoveAt(buildEntries, i), outDir, exportImport, NoPkg)

C3_Witness ==
    /\ Returned
    /\ Selective
    /\ ResultKeys = { "./plugins/*" }
    /\ Some(buildEntries, LAMBDA e : TopSegment(e.path) = "utils" /\ ~e.chunk)
    /\ Some(buildEntries, LAMBDA e : TopSegment(e.path) = "cli" /\ ~e.chunk)

\* C4: in selective mode the returned map never contains the root key ".".
C4_SelectiveExcludesRoot ==
    (Returned /\ Selective) => "." \notin ResultKeys

\* The chunk filter as the claim words it: delete every chunk entry whose
\* path does not contain ".d.", and clear the chunk flag of the others.
WithoutChunkFlags(entries) ==
    LET kept == SelectSeq(entries, LAMBDA e : ~(e.chunk /\ ~Includes(e.path, ".d.")))
    IN  [ i \in 1..Len(kept) |-> Entry(kept[i].path, FALSE) ]

\* C5: the result equals the result on the list with the ineligible chunks
\* deleted and every remaining entry treated as a non-chunk entry.
C5_ChunkFlagOnlyFilters ==
    Returned =>
        result = generatePackageExports(
                     WithoutChunkFlags(buildEntries), outDir, exportImport, NoPkg)

C5_Witness ==
    /\ Returned
    /\ Some(buildEntries, LAMBDA e : e.chunk /\ ~Includes(e.path, ".d."))
    /\ Some(buildEntries, LAMBDA e : e.chunk /\ Includes(e.path, ".d."))
    /\ Some(buildEntries, LAMBDA e : ~e.chunk)
    /\ "./plugins/*" \in ResultKeys
    /\ "." \in ResultKeys

(***************************************************************************)
(* C6..C10: the conditional object of a group.                             *)
(***************************************************************************)
\* The call has returned and generation was not disabled, so groups were
\* formed.
Generated == Returned /\ exportImport # BoolMode(FALSE)

\* The groups the call forms: base key -> member paths in discovery order.
Groups == entryGroups(buildEntries, exportImport, Len(buildEntries))

\* The key a root or folder-wildcard group is exported under.
GroupKey(baseKey) == IF baseKey = "." THEN "." ELSE baseKey \o "/*"

\* The groups among `groups` that are exported as a conditional object.
ObjectGroups(groups) ==
    { k \in Keys(groups) :
        /\ GroupKey(k) \in ResultKeys
        /\ result.exports[GroupKey(k)].kind = "object" }

\* The conditional object emitted for group k.
Conditions(k) == result.exports[GroupKey(k)].conditions

\* The member list `files` has a member ending in suffix.
HasMember(files, suffix) == Some(files, LAMBDA f : EndsWith(f, suffix))

HasDeclaration(files) ==
    \/ HasMember(files, ".d.ts")
    \/ HasMember(files, ".d.mts")
    \/ HasMember(files, ".d.cts")

\* The paths that stand for the members of group k ending in suffix: the
\* literal files of a root group, the one wildcard pattern of a folder group.
Variants(k, files, suffix) ==
    IF k = "."
    THEN { "./" \o outDir \o "/" \o files[i] :
             i \in { j \in 1..Len(files) : EndsWith(files[j], suffix) } }
    ELSE { "./" \o outDir \o "/" \o SubSeq(k, 3, Len(k)) \o "/*" \o suffix }

\* Object c has under key `outer` an object with key `inner`.
HasSub(c, outer, inner) == outer \in Keys(c) /\ inner \in Keys(c[outer])

\* C6: the top-level types key of a conditional object is present exactly
\* when the group has a declaration member, and its value comes from the
\* first present class in the order .d.ts, .d.mts, .d.cts.
C6_TopLevelTypesPriority ==
    Generated =>
        LET groups == Groups
        IN  \A k \in ObjectGroups(groups) :
                LET c     == Conditions(k)
                    files == groups[k]
                IN  /\ ("types" \in Keys(c)) <=> HasDeclaration(files)
                    /\ "types" \in Keys(c) =>
                          c["types"] \in
                              Variants(k, files,
                                       IF HasMember(files, ".d.ts") THEN ".d.ts"
                                       ELSE IF HasMember(files, ".d.mts") THEN ".d.mts"
                                       ELSE ".d.cts")

C6_Witness ==
    /\ Returned
    /\ exportImport = BoolMode(TRUE)
    /\ buildEntries = << Entry("index.d.cts", FALSE), Entry("index.d.mts", FALSE),
                         Entry("index.d.ts", FALSE) >>
    /\ "." \in ResultKeys
    /\ result.exports["."].kind = "object"
    /\ result.exports["."].conditions["types"] = "./" \o outDir \o "/index.d.ts"

\* C7: import.types is the .d.mts variant if the group has one, otherwise the
\* .d.ts variant, never a .d.cts path; require.types is the .d.cts variant if
\* present, otherwise the .d.ts variant, never a .d.mts path; the sub-key is
\* omitted when neither admissible variant exists.
C7_NestedTypesPriority ==
    Generated =>
        LET groups == Groups
        IN  \A k \in ObjectGroups(groups) :
                LET c     == Conditions(k)
                    files == groups[k]
                IN  /\ HasSub(c, "import", "types") =>
                          /\ c["import"]["types"] \in
                                 Variants(k, files,
                                          IF HasMember(files, ".d.mts")
                                          THEN ".d.mts" ELSE ".d.ts")
                          /\ ~EndsWith(c["import"]["types"], ".d.cts")
                    /\ HasSub(c, "require", "types") =>
                          /\ c["require"]["types"] \in
                                 Variants(k, files,
                                          IF HasMember(files, ".d.cts")
                                          THEN ".d.cts" ELSE ".d.ts")
                          /\ ~EndsWith(c["require"]["types"], ".d.mts")
                    /\ (~HasMember(files, ".d.mts") /\ ~HasMember(files, ".d.ts")) =>
                          ~HasSub(c, "import", "types")
                    /\ (~HasMember(files, ".d.cts") /\ ~HasMember(files, ".d.ts")) =>
                          ~HasSub(c, "require", "types")

C7_Witness ==
    /\ Returned
    /\ exportImport = BoolMode(TRUE)
    /\ buildEntries = << Entry("index.d.ts", FALSE), Entry("index.mjs", FALSE),
                         Entry("index.d.mts", FALSE) >>
    /\ "." \in ResultKeys
    /\ result.exports["."].kind = "object"
    /\ result.exports["."].conditions["import"]["types"] =
           "./" \o outDir \o "/index.d.mts"

\* C8: import.default is present exactly when the group has a .mjs member
\* and require.default exactly when it has a .cjs member; the value is the
\* file path for a root group and the wildcard pattern for a folder group.
C8_DefaultPresence ==
    Generated =>
        LET groups == Groups
        IN  \A k \in ObjectGroups(groups) :
                LET c     == Conditions(k)
                    files == groups[k]
                IN  /\ HasSub(c, "import", "default") <=> HasMember(files, ".mjs")
                    /\ HasSub(c, "require", "default") <=> HasMember(files, ".cjs")
                    /\ HasSub(c, "import", "default") =>
                          c["import"]["default"] \in Variants(k, files, ".mjs")
                    /\ HasSub(c, "require", "default") =>
                          c["require"]["default"] \in Variants(k, files, ".cjs")

C8_Witness ==
    /\ Returned
    /\ exportImport = BoolMode(TRUE)
    /\ buildEntries = << Entry("index.d.ts", FALSE), Entry("index.cjs", FALSE),
                         Entry("plugins/vite.mjs", FALSE) >>
    /\ ResultKeys = { ".", "./plugins/*" }
    /\ result.exports["."].conditions["require"]["default"] =
           "./" \o outDir \o "/index.cjs"
    /\ "import" \notin Keys(result.exports["."].conditions)
    /\ result.exports["./plugins/*"].conditions["import"]["default"] =
           "./" \o outDir \o "/plugins/*.mjs"
    /\ "require" \notin Keys(result.exports["./plugins/*"].conditions)

\* The root value is a bare string.
RootIsString == "." \in ResultKeys /\ result.exports["."].kind = "string"

\* A declaration file by its suffix.
IsDeclarationFile(path) ==
    EndsWith(path, ".d.ts") \/ EndsWith(path, ".d.mts") \/ EndsWith(path, ".d.cts")

\* C9 as stated: the root value is the bare string "./<outDir>/<file>"
\* exactly when the root group has exactly one member and that member is not
\* a declaration file; a folder-wildcard value is never a bare string.
C9_BareStringIffSingleNonDeclaration ==
    Generated =>
        LET groups == Groups
        IN  /\ RootIsString <=>
                  /\ "." \in Keys(groups)
                  /\ Len(groups["."]) = 1
                  /\ ~IsDeclarationFile(groups["."][1])
            /\ RootIsString =>
                  result.exports["."].path = "./" \o outDir \o "/" \o groups["."][1]
            /\ \A key \in ResultKeys \ { "." } : result.exports[key].kind = "object"

\* C9, what the code computes instead: the root value is the bare string
\* "./<outDir>/<file>" exactly when the root group has exactly one member and
\* that member's path does not contain ".d." anywhere; a folder-wildcard
\* value is never a bare string.
C9_BareStringIffSingleWithoutDotD ==
    Generated =>
        LET groups == Groups
        IN  /\ RootIsString <=>
                  /\ "." \in Keys(groups)
                  /\ Len(groups["."]) = 1
                  /\ ~Includes(groups["."][1], ".d.")
            /\ RootIsString =>
                  /\ result.exports["."].path = "./" \o outDir \o "/" \o groups["."][1]
                  /\ ~IsDeclarationFile(groups["."][1])
            /\ \A key \in ResultKeys \ { "." } : result.exports[key].kind = "object"

C9_Witness ==
    /\ Returned
    /\ exportImport = BoolMode(TRUE)
    /\ buildEntries = << Entry("plugins/vite.mjs", FALSE), Entry("chunk-1.mjs", TRUE),
                         Entry("cli.mjs", FALSE) >>
    /\ RootIsString
    /\ result.exports["."].path = "./" \o outDir \o "/cli.mjs"
    /\ result.exports["./plugins/*"].kind = "object"

\* C10: a group with no .mjs and no .cjs member but a declaration member is
\* exported as an object with no default key anywhere; import is exactly
\* {types: <.d.mts variant>} when a .d.mts member exists and absent otherwise;
\* require is exactly {types: <.d.cts variant>} when a .d.cts member exists
\* and absent otherwise; a lone generic .d.ts sits at top-level types.
C10_TypesOnlyGroups ==
    Generated =>
        LET groups == Groups
        IN  \A k \in Keys(groups) :
                LET files == groups[k]
                IN  ( /\ ~HasMember(files, ".mjs")
                      /\ ~HasMember(files, ".cjs")
                      /\ HasDeclaration(files) ) =>
                    /\ k \in ObjectGroups(groups)
                    /\ LET c == Conditions(k)
                       IN  /\ Keys(c) \subseteq { "types", "import", "require" }
                           /\ ("import" \in Keys(c)) <=> HasMember(files, ".d.mts")
                           /\ "import" \in Keys(c) =>
                                 /\ Keys(c["import"]) = { "types" }
                                 /\ c["import"]["types"] \in Variants(k, files, ".d.mts")
                           /\ ("require" \in Keys(c)) <=> HasMember(files, ".d.cts")
                           /\ "require" \in Keys(c) =>
                                 /\ Keys(c["require"]) = { "types" }
                                 /\ c["require"]["types"] \in Variants(k, files, ".d.cts")
                           /\ ( /\ HasMember(files, ".d.ts")
                                /\ ~HasMember(files, ".d.mts")
                                /\ ~HasMember(files, ".d.cts") ) =>
                                 /\ Keys(c) = { "types" }
                                 /\ c["types"] \in Variants(k, files, ".d.ts")

C10_Witness ==
    /\ Returned
    /\ exportImport = BoolMode(TRUE)
    /\ buildEntries = << Entry("index.d.cts", FALSE), Entry("index.d.ts", FALSE),
                         Entry("plugins/vite.d.ts", FALSE) >>
    /\ ResultKeys = { ".", "./plugins/*" }
    /\ Keys(result.exports["."].conditions) = { "types", "require" }
    /\ result.exports["."].conditions["require"] =
           [ types |-> "./" \o outDir \o "/index.d.cts" ]
    /\ result.exports["./plugins/*"].conditions =
           [ types |-> "./" \o outDir \o "/plugins/*.d.ts" ]

(***************************************************************************)
(* C11..C14: folder groups, unrecognized suffixes, the returned map.       *)
(***************************************************************************)
\* The suffixes generateExportConditions and its folder variant classify.
RecognizedSuffixes == { ".mjs", ".cjs", ".d.ts", ".d.mts", ".d.cts" }

\* The entry passes the chunk filter and the folder filter.
Eligible(e) ==
    /\ ~(e.chunk /\ ~Includes(e.path, ".d."))
    /\ Selective => TopSegment(e.path) \in ListedFolders

\* The path strings of a conditional object, at either nesting level.
PathStrings(c) ==
    UNION { IF k = "types" THEN { c[k] } ELSE { c[k][n] : n \in Keys(c[k]) } :
            k \in Keys(c) }

\* The path strings of an exported value.
ValueStrings(v) ==
    IF v.kind = "string" THEN { v.path } ELSE PathStrings(v.conditions)

\* C11: an eligible entry whose name has several segments is a member of the
\* group of its first segment f only; that group is exported under no key
\* but "./f/*", and is exported when a member has a recognized suffix; every
\* path string of the value is "./<outDir>/f/*<suffix>" for a recognized
\* suffix that some member of the group ends with.
C11_FolderWildcard ==
    Generated =>
        LET groups == Groups
        IN  \A i \in 1..Len(buildEntries) :
                LET e == buildEntries[i]
                    f == Split(e.path)[1]
                IN  (Eligible(e) /\ Includes(e.path, "/")) =>
                        /\ "./" \o f \in Keys(groups)
                        /\ \A k \in Keys(groups) :
                               Some(groups[k], LAMBDA m : m = e.path) <=> k = "./" \o f
                        /\ \A key \in ResultKeys :
                               Includes(key, f) => key = "./" \o f \o "/*"
                        /\ (\E s \in RecognizedSuffixes : HasMember(groups["./" \o f], s))
                               => "./" \o f \o "/*" \in ResultKeys
                        /\ "./" \o f \o "/*" \in ResultKeys =>
                               \A p \in ValueStrings(result.exports["./" \o f \o "/*"]) :
                                   \E s \in RecognizedSuffixes :
                                       /\ p = "./" \o outDir \o "/" \o f \o "/*" \o s
                                       /\ HasMember(groups["./" \o f], s)

C11_Witness ==
    /\ Generated
    /\ Some(buildEntries, LAMBDA e : e.path = "utils/deep/helper.mjs")
    /\ Some(buildEntries, LAMBDA e : e.path = "plugins/vite.d.mts" /\ ~e.chunk)
    /\ "./utils/*" \in ResultKeys
    /\ "./plugins/*" \in ResultKeys
    /\ result.exports["./utils/*"].kind = "object"
    /\ PathStrings(result.exports["./utils/*"].conditions)
           = { "./" \o outDir \o "/utils/*.mjs" }

\* The path ends with none of the recognized suffixes.
Unrecognized(path) == \A s \in RecognizedSuffixes : ~EndsWith(path, s)

\* Every path string of the returned map.
ResultStrings == UNION { ValueStrings(result.exports[key]) : key \in ResultKeys }

\* The path string that names the entry file itself.
FilePath(path) == "./" \o outDir \o "/" \o path

\* The result of the same call on the entry list without its i-th entry.
ResultWithout(i) ==
    generatePackageExports(RemoveAt(buildEntries, i), outDir, exportImport, NoPkg)

CollapsesToString(files) == Len(files) = 1 /\ ~Includes(files[1], ".d.")

ProducesOutput(k, files) ==
    \/ k = "." /\ CollapsesToString(files)
    \/ \E s \in RecognizedSuffixes : HasMember(files, s)

\* C13: the result is undefined or a map with at least one key, and it is
\* undefined exactly when the mode is false or no group produces an output.
C13_NeverEmptyMap ==
    Returned =>
        LET groups == Groups
        IN  /\ result.kind \in { "undefined", "map" }
            /\ result.kind = "map" => Keys(result.exports) # {}
            /\ result = Undefined <=>
                   \/ exportImport = BoolMode(FALSE)
                   \/ \A k \in Keys(groups) : ~ProducesOutput(k, groups[k])

\* Undefined although generation is enabled and a group was formed: the
\* only group has no member with a recognized suffix.
C13_Witness ==
    /\ Returned
    /\ exportImport = BoolMode(TRUE)
    /\ buildEntries = << Entry("utils/readme.txt", FALSE), Entry("chunk-1.mjs", TRUE) >>
    /\ Keys(Groups) = { "./utils" }
    /\ result = Undefined

\* A path string: a string that starts with "./<outDir>/".
IsPathString(x) ==
    /\ Len(x) > Len(outDir) + 3
    /\ SubSeq(x, 1, Len(outDir) + 3) = "./" \o outDir \o "/"

\* The nested object of an import or require condition.
IsNestedConditions(n) ==
    /\ Keys(n) # {}
    /\ Keys(n) \subseteq { "default", "types" }
    /\ \A k \in Keys(n) : IsPathString(n[k])

\* An exported value: a path string or a conditional object.
IsExportValue(v) ==
    IF v.kind = "string" THEN IsPathString(v.path)
    ELSE /\ v.kind = "object"
         /\ Keys(v.conditions) # {}
         /\ Keys(v.conditions) \subseteq { "types", "import", "require" }
         /\ \A k \in Keys(v.conditions) :
                IF k = "types" THEN IsPathString(v.conditions[k])
                ELSE IsNestedConditions(v.conditions[k])

\* C14: every value of the returned map is a path string or a non-empty
\* object with keys among types, import, require; types is a path string;
\* import and require are non-empty objects with keys among default, types
\* and path-string values.
C14_Shape ==
    Returned => \A key \in ResultKeys : IsExportValue(result.exports[key])

C14_Witness ==
    /\ Returned
    /\ ResultKeys = { ".", "./plugins/*" }
    /\ result.exports["./plugins/*"].kind = "object"
    /\ result.exports["."].kind = "object"
    /\ Keys(result.exports["."].conditions) = { "types", "import" }
    /\ Keys(result.exports["."].conditions["import"]) = { "default", "types" }
    /\ Keys(result.exports["./plugins/*"].conditions) = { "require" }

(***************************************************************************)
(* C15, C16: inferExportType.                                              *)
(***************************************************************************)
\* The arguments of the call.
CalledCondition == firstCall[1]
CalledChain == firstCall[2]
CalledFilename == firstCall[3]

\* The filename ends with one of the suffixes that decide the type.
Decisive(file) ==
    EndsWith(file, ".d.ts") \/ EndsWith(file, ".mjs") \/ EndsWith(file, ".cjs")

\* C15: whatever the condition and the chain are, a filename ending in
\* .d.ts or .mjs yields "esm" and a filename ending in .cjs yields "cjs".
C15_SuffixDominates ==
    Inferred =>
        /\ EndsWith(CalledFilename, ".d.ts") => exportType = "esm"
        /\ EndsWith(CalledFilename, ".mjs") => exportType = "esm"
        /\ EndsWith(CalledFilename, ".cjs") => exportType = "cjs"

C15_Witness ==
    /\ Inferred
    /\ firstCall = << "import", << "node", "import" >>, "index.cjs" >>
    /\ exportType = "cjs"

\* The type of the first element of seq that is "import" or "require";
\* "esm" when seq has none.
TypeOfFirstRecognized(seq) ==
    LET recognized == { i \in 1..Len(seq) : seq[i] \in { "import", "require" } }
    IN  IF recognized = {} THEN "esm"
        ELSE LET first == CHOOSE i \in recognized : \A j \in recognized : i <= j
             IN  IF seq[first] = "import" THEN "esm" ELSE "cjs"

\* C16: with a filename that is empty or has no decisive suffix, the result
\* is the type of the first recognized element of the condition followed by
\* the chain, and "esm" when none is recognized.
C16_FirstRecognizedDecides ==
    (Inferred /\ ~Decisive(CalledFilename)) =>
        exportType = TypeOfFirstRecognized(<< CalledCondition >> \o CalledChain)

C16_Witness ==
    /\ Inferred
    /\ firstCall = << "node", << "default", "require", "import" >>, "index.js" >>
    /\ exportType = "cjs"

(***************************************************************************)
(* C17..C19: extractExportFilenames.                                       *)
(***************************************************************************)
\* The string leaves below the pairs i, i+1, ... of an object, depth first
\* in the order of the pairs, each with the keys on its way from the
\* outermost one to its own.
RECURSIVE LeavesFrom(_, _, _)
LeavesFrom(entries, enclosing, i) ==
    IF i > Len(entries) THEN << >>
    ELSE LET keys  == Append(enclosing, entries[i].key)
             value == entries[i].value
             below == IF value.kind = "string"
                      THEN << [keys |-> keys, file |-> value.path] >>
                      ELSE IF value.kind = "object"
                      THEN LeavesFrom(value.entries, keys, 1)
                      ELSE << >>
         IN  below \o LeavesFrom(entries, enclosing, i + 1)

\* The string leaves of the declaration that lie under no key ending in
\* ".json".
KeptLeaves ==
    IF pkgExports.kind # "object" THEN << >>
    ELSE SelectSeq(LeavesFrom(pkgExports.entries, << >>, 1),
                   LAMBDA leaf : \A i \in 1..Len(leaf.keys) :
                                     ~EndsWith(leaf.keys[i], ".json"))

\* The leaf's own key and the keys that enclose it, outermost first.
OwnKey(leaf) == leaf.keys[Len(leaf.keys)]
Enclosing(leaf) == SubSeq(leaf.keys, 1, Len(leaf.keys) - 1)

\* The type of the innermost element of seq that is "import" or "require";
\* "esm" when seq has none.
TypeOfLastRecognized(seq) ==
    LET recognized == { i \in 1..Len(seq) : seq[i] \in { "import", "require" } }
    IN  IF recognized = {} THEN "esm"
        ELSE LET last == CHOOSE i \in recognized : \A j \in recognized : i >= j
             IN  IF seq[last] = "import" THEN "esm" ELSE "cjs"

\* C17: a string leaf whose own key is unrecognized and whose filename has
\* no decisive suffix has the type of the innermost enclosing key that is
\* "import" or "require", and "esm" when no such key encloses it.
C17_NearestEnclosingDecides ==
    (Extracted /\ pkgExports.kind = "object") =>
        LET leaves == KeptLeaves
        IN  /\ Len(descriptors) = Len(leaves)
            /\ \A i \in 1..Len(leaves) :
                   (/\ OwnKey(leaves[i]) \notin { "import", "require" }
                    /\ ~Decisive(leaves[i].file))
                       => descriptors[i].type = TypeOfLastRecognized(Enclosing(leaves[i]))

\* C18 as stated: undefined yields the empty list and every string s yields
\* the one descriptor of s with type "esm".
C18_BaseCases ==
    Extracted =>
        /\ pkgExports = Undefined => descriptors = << >>
        /\ pkgExports.kind = "string" =>
               descriptors = << [file |-> pkgExports.path, type |-> "esm"] >>

\* C18 amended: undefined and the empty string yield the empty list, and
\* every non-empty string s yields the one descriptor of s with type "esm".
C18_BaseCasesNonEmptyString ==
    Extracted =>
        /\ pkgExports = Undefined => descriptors = << >>
        /\ pkgExports.kind = "string" =>
               IF pkgExports.path = ""
               THEN descriptors = << >>
               ELSE descriptors = << [file |-> pkgExports.path, type |-> "esm"] >>

C18_Witness ==
    /\ Extracted
    /\ pkgExports = StringValue("index.cjs")
    /\ descriptors = << [file |-> "index.cjs", type |-> "esm"] >>

\* C19: for an object the result lists, in depth-first order of the pairs,
\* one descriptor per string leaf that lies under no key ending in ".json",
\* with the type inferExportType gives for the leaf's own key, the chain of
\* its enclosing keys and its value.
C19_OneDescriptorPerLeaf ==
    (Extracted /\ pkgExports.kind = "object") =>
        LET leaves == KeptLeaves
        IN  /\ Len(descriptors) = Len(leaves)
            /\ \A i \in 1..Len(leaves) :
                   /\ descriptors[i].file = leaves[i].file
                   /\ descriptors[i].type =
                          inferExportType(OwnKey(leaves[i]), Enclosing(leaves[i]),
                                          leaves[i].file)

\* A manifest subpath with a whole subtree dropped between two leaves.
C19_Witness ==
    /\ Extracted
    /\ pkgExports = ExportsObject(<<
           [key |-> "require", value |-> StringValue("test")],
           [key |-> "./package.json", value |-> ExportsObject(<<
               [key |-> "import", value |-> StringValue("test")] >>)] >>)
    /\ descriptors = << [file |-> "test", type |-> "cjs"] >>

(***************************************************************************)
(* C20: termination of inferExportType.                                    *)
(***************************************************************************)
\* C20: for a chain of length n the call returns "esm" or "cjs" after at
\* most n + 1 evaluations of the body; every evaluation that recurses
\* shortens the chain by one element, and an activation that has not
\* returned can always take its next evaluation.
C20_ReturnsWithinChainLength ==
    /\ Inferred =>
           /\ exportType \in { "esm", "cjs" }
           /\ evaluations <= Len(CalledChain) + 1
    /\ pc = "infer" =>
           /\ evaluations + Len(previousConditions) = Len(CalledChain)
           /\ ENABLED NextInfer

\* The longest walk: nothing is recognized along a chain of full length.
C20_Witness ==
    /\ Inferred
    /\ Len(CalledChain) = MaxChain
    /\ evaluations = MaxChain + 1
    /\ exportType = "esm"

(***************************************************************************)
(* C21..C25: determinism, classification, keys and literal paths.          *)
(***************************************************************************)
\* C21: the returned value is the value of the call on the same entries,
\* outDir and mode with any manifest argument, given or not.
C21_ManifestIndependent ==
    Returned =>
        \A manifest \in Manifests :
            result = generatePackageExports(buildEntries, outDir, exportImport, manifest)

C21_Witness ==
    /\ Returned
    /\ ResultKeys = { ".", "./plugins/*" }
    /\ \E manifest \in Manifests :
           /\ manifest.given
           /\ result = generatePackageExports(buildEntries, outDir, exportImport, manifest)

\* The classes of filesByType that contain the path.
ClassesOf(path) ==
    LET byType == filesByType(<< path >>)
    IN  { class \in DOMAIN byType : Len(byType[class]) > 0 }

\* The path ends with a declaration suffix.
HasDeclarationSuffix(path) ==
    EndsWith(path, ".d.ts") \/ EndsWith(path, ".d.mts") \/ EndsWith(path, ".d.cts")

\* The values under import.default and require.default in the result.
DefaultValues ==
    UNION { LET v == result.exports[key]
            IN  IF v.kind = "string" THEN {}
                ELSE { v.conditions[k]["default"] :
                         k \in { c \in Keys(v.conditions) \cap { "import", "require" } :
                                   "default" \in Keys(v.conditions[c]) } } :
            key \in ResultKeys }

\* C22: every member of a group is in at most one class of filesByType, a
\* .d.mts member is not in class mjs and a .d.cts member not in class cjs,
\* and no import.default or require.default value ends with a declaration
\* suffix.
C22_SuffixExclusive ==
    Generated =>
        LET groups == Groups
        IN  /\ \A k \in Keys(groups) : \A i \in 1..Len(groups[k]) :
                   LET path == groups[k][i]
                   IN  /\ Cardinality(ClassesOf(path)) <= 1
                       /\ EndsWith(path, ".d.mts") => ClassesOf(path) = { "dmts" }
                       /\ EndsWith(path, ".d.cts") => ClassesOf(path) = { "dcts" }
            /\ \A p \in DefaultValues : ~HasDeclarationSuffix(p)

C22_Witness ==
    /\ Generated
    /\ buildEntries = << Entry("index.d.mts", FALSE), Entry("index.mjs", FALSE),
                         Entry("plugins/vite.d.cts", FALSE) >>
    /\ DefaultValues = { "./" \o outDir \o "/index.mjs" }
    /\ "./plugins/*" \in ResultKeys

\* The first segments of the entry paths that have several segments.
FolderSegments ==
    { Split(buildEntries[i].path)[1] :
        i \in { j \in 1..Len(buildEntries) : Includes(buildEntries[j].path, "/") } }

\* C23: every key of the returned map is "." or "./<segment>/*"; every
\* member of a non-root group contains "/", so every non-root group has the
\* folder pattern and none is exported under a literal "./<name>" key.
C23_RootOrWildcardKeys ==
    Generated =>
        LET groups == Groups
        IN  /\ \A key \in ResultKeys :
                   \/ key = "."
                   \/ \E segment \in FolderSegments : key = "./" \o segment \o "/*"
            /\ \A k \in Keys(groups) \ { "." } :
                   /\ \A i \in 1..Len(groups[k]) : Includes(groups[k][i], "/")
                   /\ hasFolderPattern(k, groups[k])
                   /\ k \notin ResultKeys

\* A folder with a single file, next to a root file.
C23_Witness ==
    /\ Generated
    /\ buildEntries = << Entry("plugins/vite.mjs", FALSE), Entry("index.mjs", FALSE) >>
    /\ ResultKeys = { ".", "./plugins/*" }

\* The path strings of the returned map without a wildcard.
LiteralStrings == { p \in ResultStrings : ~Includes(p, "*") }

\* C24: every path string of the returned map without a wildcard is
\* "./<outDir>/" followed by the unmodified path of an eligible entry whose
\* name has a single segment.
C24_LiteralPathsAreEntries ==
    Generated =>
        \A p \in LiteralStrings :
            \E i \in 1..Len(buildEntries) :
                /\ Eligible(buildEntries[i])
                /\ ~Includes(buildEntries[i].path, "/")
                /\ p = "./" \o outDir \o "/" \o buildEntries[i].path

\* Literal paths under types and require of the root object, next to a
\* wildcard.
C24_Witness ==
    /\ Generated
    /\ Cardinality(LiteralStrings) = 2
    /\ "./" \o outDir \o "/index.d.ts" \in LiteralStrings
    /\ "./" \o outDir \o "/index.cjs" \in LiteralStrings
    /\ ResultStrings # LiteralStrings

\* The paths of the eligible root-level entries, in input order.
RootMembers ==
    LET kept == SelectSeq(buildEntries,
                          LAMBDA e : Eligible(e) /\ ~Includes(e.path, "/"))
    IN  [ i \in 1..Len(kept) |-> kept[i].path ]

\* The first of the members that ends with the suffix.
FirstOf(members, suffix) ==
    members[CHOOSE i \in 1..Len(members) :
                /\ EndsWith(members[i], suffix)
                /\ \A j \in 1..(i - 1) : ~EndsWith(members[j], suffix)]

\* The path strings that stand for the first member of each suffix class.
FirstOfEachClass(members) ==
    { FilePath(FirstOf(members, s)) :
        s \in { t \in RecognizedSuffixes : HasMember(members, t) } }

\* C25: the root group is the eligible root-level entries in input order,
\* none is dropped as a main file, import.default and require.default are
\* the first .mjs and the first .cjs member, every path string of the root
\* value is the first member of its suffix class, and a later member of a
\* class appears nowhere in the result.
C25_RootDiscoveryOrder ==
    (Generated /\ Len(RootMembers) > 0) =>
        LET members == RootMembers
            groups  == Groups
        IN  /\ "." \in Keys(groups)
            /\ groups["."] = members
            /\ mainFiles(groups["."]) = members
            /\ "." \in ResultKeys
            /\ LET value == result.exports["."]
               IN  IF value.kind = "string"
                   THEN value.path = FilePath(members[1]) /\ Len(members) = 1
                   ELSE /\ HasMember(members, ".mjs") =>
                              /\ HasSub(value.conditions, "import", "default")
                              /\ value.conditions["import"]["default"]
                                     = FilePath(FirstOf(members, ".mjs"))
                        /\ HasMember(members, ".cjs") =>
                              /\ HasSub(value.conditions, "require", "default")
                              /\ value.conditions["require"]["default"]
                                     = FilePath(FirstOf(members, ".cjs"))
                        /\ ValueStrings(value) \subseteq FirstOfEachClass(members)
            /\ \A i \in 1..Len(members) :
                   FilePath(members[i]) \in ResultStrings =>
                       FilePath(members[i]) \in FirstOfEachClass(members)

\* Two modules and a declaration at the root, the module named index second.
C25_Witness ==
    /\ Generated
    /\ RootMembers = << "cli.mjs", "index.mjs", "cli.d.ts" >>
    /\ result.exports["."].conditions["import"]["default"] = FilePath("cli.mjs")
    /\ FilePath("index.mjs") \notin ResultStrings
====
